---- MODULE Spec2Model ----
(***************************************************************************)
(* Model of aws_lambda_powertools/utilities/feature_toggles/               *)
(* feature_flags.py: the FeatureFlags rule engine.                         *)
(*                                                                         *)
(* Python values are records [kind, n, s, l]: kind names the Python type,  *)
(* n carries a bool (0/1) or an int, s a str as a sequence of characters,  *)
(* l a list of str.                                                        *)
(***************************************************************************)
EXTENDS Integers, Sequences, FiniteSets, TLC

VARIABLES pc, op, args, store, ret, trace, hist

vars == <<pc, op, args, store, ret, trace, hist>>

---------------------------------------------------------------------------
(* Python values *)

PyNone == [kind |-> "none", n |-> 0, s |-> <<>>, l |-> <<>>]

PyBool(b) == [kind |-> "bool", n |-> IF b THEN 1 ELSE 0, s |-> <<>>, l |-> <<>>]

PyInt(i) == [kind |-> "int", n |-> i, s |-> <<>>, l |-> <<>>]

PyStr(str) == [kind |-> "str", n |-> 0, s |-> str, l |-> <<>>]

PyList(lst) == [kind |-> "list", n |-> 0, s |-> <<>>, l |-> lst]

\* Python truth value testing: None, False, 0, "" and [] are falsy.
Truthy(v) ==
    CASE v.kind = "none" -> FALSE
      [] v.kind \in {"bool", "int"} -> v.n # 0
      [] v.kind = "str" -> v.s # <<>>
      [] v.kind = "list" -> v.l # <<>>

\* bool(x)
bool(v) == PyBool(Truthy(v))

\* a == b on the modelled types (bool is an int: True == 1).
PyEq(a, b) ==
    IF a.kind \in {"bool", "int"} /\ b.kind \in {"bool", "int"}
    THEN a.n = b.n
    ELSE a.kind = b.kind /\ a.s = b.s /\ a.l = b.l

\* str.startswith / str.endswith / substring test on character sequences
StartsWith(a, b) == Len(b) <= Len(a) /\ SubSeq(a, 1, Len(b)) = b

EndsWith(a, b) == Len(b) <= Len(a) /\ SubSeq(a, Len(a) - Len(b) + 1, Len(a)) = b

IsSubstring(a, b) == \E i \in 0..(Len(b) - Len(a)) : SubSeq(b, i + 1, i + Len(a)) = a

\* The outcome of calling one of the lambdas: a value, or an exception.
Returned(b) == [exc |-> FALSE, v |-> b]

Raised == [exc |-> TRUE, v |-> FALSE]

---------------------------------------------------------------------------
(* schema.ACTION and the lambdas of mapping_by_action *)

ActionValues == {"EQUALS", "STARTSWITH", "ENDSWITH", "CONTAINS"}

\* lambda a, b: a == b
LambdaEquals(a, b) == Returned(PyEq(a, b))

\* lambda a, b: a.startswith(b): AttributeError unless a is a str, TypeError
\* unless b is a str
LambdaStartswith(a, b) ==
    IF a.kind = "str" /\ b.kind = "str" THEN Returned(StartsWith(a.s, b.s)) ELSE Raised

\* lambda a, b: a.endswith(b)
LambdaEndswith(a, b) ==
    IF a.kind = "str" /\ b.kind = "str" THEN Returned(EndsWith(a.s, b.s)) ELSE Raised

\* the operands of "in" swapped: b in a
LambdaContainsReversed(a, b) ==
    CASE a.kind = "str" -> IF b.kind = "str" THEN Returned(IsSubstring(b.s, a.s)) ELSE Raised
      [] a.kind = "list" -> Returned(b.kind = "str" /\ \E i \in 1..Len(a.l) : a.l[i] = b.s)
      [] OTHER -> Raised

\* lambda a, b: a in b: substring of a str (TypeError if a is no str), member
\* of a list, TypeError on a container-less b
LambdaContains(a, b) ==
    CASE b.kind = "str" -> IF a.kind = "str" THEN Returned(IsSubstring(a.s, b.s)) ELSE Raised
      [] b.kind = "list" -> Returned(a.kind = "str" /\ \E i \in 1..Len(b.l) : b.l[i] = a.s)
      [] OTHER -> Raised

\* mapping_by_action.get(action, lambda a, b: False)(a, b)
mapping_by_action(action, a, b) ==
    CASE action = "EQUALS" -> LambdaEquals(a, b)
      [] action = "STARTSWITH" -> LambdaStartswith(a, b)
      [] action = "ENDSWITH" -> LambdaEndswith(a, b)
      [] action = "CONTAINS" -> LambdaContains(a, b)
      [] OTHER -> Returned(FALSE)

\* _match_by_action without its "if not context_value" guard
_match_by_action_unguarded(action, condition_value, context_value) ==
    LET r == mapping_by_action(action, context_value, condition_value)
    IN  IF r.exc THEN FALSE ELSE r.v

\* FeatureFlags._match_by_action: func(context_value, condition_value), an
\* exception caught and turned into False
_match_by_action(action, condition_value, context_value) ==
    IF ~Truthy(context_value)
    THEN FALSE
    ELSE LET r == mapping_by_action(action, context_value, condition_value)
         IN  IF r.exc THEN FALSE ELSE r.v

\* context.get(key): None for a missing key
ContextGet(context, key) == IF key \in DOMAIN context THEN context[key] ELSE PyNone

\* FeatureFlags._is_rule_matched: the loop body returns on its first pass, so
\* the first condition alone decides; an empty list falls through to False.
\* trace lists one "match" per call of _match_by_action.
_is_rule_matched(rule, context) ==
    LET conditions == rule.conditions
    IN  IF conditions = <<>>
        THEN [ret |-> FALSE, trace |-> <<>>]
        ELSE LET condition == conditions[1]
                 context_value == ContextGet(context, condition.key)
             IN  [ret |-> _match_by_action(condition.action, condition.value, context_value),
                  trace |-> <<"match">>]

---------------------------------------------------------------------------
(* Bounded universes of values, conditions, rules and contexts *)

MaxStrLen == 2

MaxListLen == 1

MaxConds == 2

Chars == {"a", "b"}

Strings == UNION {[1..n -> Chars] : n \in 0..MaxStrLen}

ListElems == {<<"a">>, <<"a", "b">>}

Lists == UNION {[1..n -> ListElems] : n \in 0..MaxListLen}

Values ==
    {PyNone, PyBool(FALSE), PyBool(TRUE), PyInt(0), PyInt(1)}
        \cup {PyStr(x) : x \in Strings} \cup {PyList(x) : x \in Lists}

\* the four schema actions and one a schema does not define
ActionInputs == ActionValues \cup {"REGEX"}

Keys == {"tenant", "region"}

\* contexts: every mapping from a subset of the keys to the given values
ContextsOver(keys, vals) == UNION {[ks -> vals] : ks \in SUBSET keys}

RuleCondValues == {PyStr(<<"a">>), PyStr(<<>>)}

RuleCtxValues == {PyStr(<<"a">>), PyStr(<<"a", "b">>), PyStr(<<>>)}

RuleConds == [key : Keys, action : ActionInputs, value : RuleCondValues]

RuleInputs ==
    [default : {PyBool(TRUE)},
     conditions : UNION {[1..n -> RuleConds] : n \in 0..MaxConds}]

RuleContexts == ContextsOver(Keys, RuleCtxValues)

---------------------------------------------------------------------------
(* State: the operation under way (op, args, pc), what it returned (ret),   *)
(* the collaborator and matcher calls it made (trace), the configuration    *)
(* store the provider reads (store) and the calls completed so far, where a   *)
(* behaviour makes several (hist).                                          *)

Returns(v) == [raised |-> FALSE, val |-> v, names |-> <<>>]

NoRet == Returns(PyNone)

NoStore == [fetch |-> "ok", validate |-> "ok", doc |-> <<>>]

\* A call of _match_by_action(action, condition_value, context_value)
MatchByAction ==
    /\ pc = "start" /\ op = "match"
    /\ ret' = Returns(PyBool(_match_by_action(args.action, args.condition_value, args.context_value)))
    /\ trace' = <<"match">>
    /\ pc' = "done"
    /\ UNCHANGED <<op, args, store, hist>>

\* A call of _is_rule_matched(feature_name, rule, context)
IsRuleMatched ==
    /\ pc = "start" /\ op = "rule"
    /\ LET r == _is_rule_matched(args.rule, args.context)
       IN  ret' = Returns(PyBool(r.ret)) /\ trace' = r.trace
    /\ pc' = "done"
    /\ UNCHANGED <<op, args, store, hist>>

InitCond ==
    /\ pc = "start"
    /\ \/ /\ op = "match"
          /\ args \in [action : ActionInputs, condition_value : Values, context_value : Values]
       \/ /\ op = "rule"
          /\ args \in [rule : RuleInputs, context : RuleContexts]
    /\ store = NoStore /\ ret = NoRet /\ trace = <<>> /\ hist = <<>>

NextCond == MatchByAction \/ IsRuleMatched

SpecCond == InitCond /\ [][NextCond]_vars

---------------------------------------------------------------------------
(* The engine: _handle_rules, get_configuration, evaluate,                  *)
(* get_all_enabled_feature_toggles                                          *)

\* _handle_rules with its second return after the loop: the first rule that
\* matches decides
RECURSIVE _handle_rules_scan(_, _, _)
_handle_rules_scan(context, feature_default_value, rules) ==
    IF rules = <<>>
    THEN [ret |-> feature_default_value, trace |-> <<>>]
    ELSE LET m == _is_rule_matched(Head(rules), context)
             rest == _handle_rules_scan(context, feature_default_value, Tail(rules))
         IN  IF m.ret
             THEN [ret |-> bool(Head(rules).default), trace |-> <<"rule">> \o m.trace]
             ELSE [ret |-> rest.ret, trace |-> <<"rule">> \o m.trace \o rest.trace]

\* FeatureFlags._handle_rules: the loop body returns on its first pass, so
\* the first rule alone decides; an empty list falls through to False.
\* feature_default_value is returned as it was passed.
_handle_rules(context, feature_default_value, rules) ==
    IF rules = <<>>
    THEN [ret |-> PyBool(FALSE), trace |-> <<>>]
    ELSE LET rule == rules[1]
             m == _is_rule_matched(rule, context)
         IN  [ret |-> IF m.ret THEN bool(rule.default) ELSE feature_default_value,
              trace |-> <<"rule">> \o m.trace]

\* get_configuration without the call of the validator
get_configuration_unvalidated(st) ==
    IF st.fetch # "ok"
    THEN [status |-> st.fetch, doc |-> <<>>, trace |-> <<"fetch">>]
    ELSE [status |-> "ok", doc |-> st.doc, trace |-> <<"fetch">>]

\* get_configuration keeping the first accepted document for later calls
get_configuration_cached(st) ==
    IF hist # <<>> /\ hist[1].store.fetch = "ok" /\ hist[1].store.validate = "ok"
    THEN [status |-> "ok", doc |-> hist[1].store.doc, trace |-> <<>>]
    ELSE IF st.fetch # "ok"
         THEN [status |-> st.fetch, doc |-> <<>>, trace |-> <<"fetch">>]
         ELSE [status |-> st.validate,
               doc |-> IF st.validate = "ok" THEN st.doc ELSE <<>>,
               trace |-> <<"fetch", "validate">>]

\* FeatureFlags.get_configuration: the store is asked once, then the
\* validator; a failure of either ends the call with that failure.
get_configuration(st) ==
    IF st.fetch # "ok"
    THEN [status |-> st.fetch, doc |-> <<>>, trace |-> <<"fetch">>]
    ELSE [status |-> st.validate,
          doc |-> IF st.validate = "ok" THEN st.doc ELSE <<>>,
          trace |-> <<"fetch", "validate">>]

\* toggles_dict.get(FEATURES_KEY, {}).get(feature_name, None): the document is
\* the features mapping in insertion order, a sequence of [name, def].
HasFeature(doc, feature_name) == \E i \in 1..Len(doc) : doc[i].name = feature_name

GetFeature(doc, feature_name) ==
    doc[CHOOSE i \in 1..Len(doc) : doc[i].name = feature_name].def

\* evaluate without its "if not rules_list" branch
ResolveFeatureUnchecked(feature, context) ==
    _handle_rules(context, bool(feature.default), feature.rules)

\* evaluate, lines 149-167: a feature without rules yields its own default,
\* one with rules what _handle_rules yields
ResolveFeature(feature, context) ==
    LET rules_list == feature.rules
        feature_default_value == feature.default
    IN  IF rules_list = <<>>
        THEN [ret |-> bool(feature_default_value), trace |-> <<>>]
        ELSE _handle_rules(context, bool(feature_default_value), rules_list)

Raises == [raised |-> TRUE, val |-> PyNone, names |-> <<>>]

\* evaluate without its try/except: a ConfigurationError reaches the caller
evaluate_uncaught(st, feature_name, context, default) ==
    LET cfg == get_configuration(st)
    IN  IF cfg.status # "ok"
        THEN [ret |-> Raises, trace |-> cfg.trace]
        ELSE IF ~HasFeature(cfg.doc, feature_name)
             THEN [ret |-> Returns(default), trace |-> cfg.trace]
             ELSE LET r == ResolveFeature(GetFeature(cfg.doc, feature_name), context)
                  IN  [ret |-> Returns(r.ret), trace |-> cfg.trace \o r.trace]

\* evaluate answering False, not the caller's default, for an unknown feature
evaluate_unknown_false(st, feature_name, context, default) ==
    LET cfg == get_configuration(st)
    IN  CASE cfg.status = "ConfigurationError" -> [ret |-> Returns(default), trace |-> cfg.trace]
          [] cfg.status = "Exception" -> [ret |-> Raises, trace |-> cfg.trace]
          [] OTHER ->
               IF ~HasFeature(cfg.doc, feature_name)
               THEN [ret |-> Returns(PyBool(FALSE)), trace |-> cfg.trace]
               ELSE LET r == ResolveFeature(GetFeature(cfg.doc, feature_name), context)
                    IN  [ret |-> Returns(r.ret), trace |-> cfg.trace \o r.trace]

\* FeatureFlags.evaluate; an exception that is no ConfigurationError is not
\* caught and reaches the caller.
evaluate(st, feature_name, context, default) ==
    LET cfg == get_configuration(st)
    IN  CASE cfg.status = "ConfigurationError" -> [ret |-> Returns(default), trace |-> cfg.trace]
          [] cfg.status = "Exception" -> [ret |-> Raises, trace |-> cfg.trace]
          [] OTHER ->
               IF ~HasFeature(cfg.doc, feature_name)
               THEN [ret |-> Returns(default), trace |-> cfg.trace]
               ELSE LET r == ResolveFeature(GetFeature(cfg.doc, feature_name), context)
                    IN  [ret |-> Returns(r.ret), trace |-> cfg.trace \o r.trace]

\* the loop putting each enabled name in front of ret_list
RECURSIVE FeaturesLoopPrepending(_, _, _)
FeaturesLoopPrepending(features, context, i) ==
    IF i > Len(features)
    THEN [names |-> <<>>, trace |-> <<>>]
    ELSE LET d == features[i].def
             rest == FeaturesLoopPrepending(features, context, i + 1)
             h == _handle_rules(context, d.default, d.rules)
         IN  IF Truthy(d.default) /\ d.rules = <<>>
             THEN [names |-> rest.names \o <<features[i].name>>, trace |-> rest.trace]
             ELSE [names |-> rest.names \o (IF Truthy(h.ret) THEN <<features[i].name>> ELSE <<>>),
                   trace |-> h.trace \o rest.trace]

\* The for loop of get_all_enabled_feature_toggles from the i-th feature on:
\* the names appended to ret_list and the rules and conditions looked at.
RECURSIVE FeaturesLoop(_, _, _)
FeaturesLoop(features, context, i) ==
    IF i > Len(features)
    THEN [names |-> <<>>, trace |-> <<>>]
    ELSE LET feature_name == features[i].name
             rules_list == features[i].def.rules
             feature_default_value == features[i].def.default
             rest == FeaturesLoop(features, context, i + 1)
         IN  IF Truthy(feature_default_value) /\ rules_list = <<>>
             THEN [names |-> <<feature_name>> \o rest.names, trace |-> rest.trace]
             ELSE LET h == _handle_rules(context, feature_default_value, rules_list)
                  IN  [names |-> (IF Truthy(h.ret) THEN <<feature_name>> ELSE <<>>) \o rest.names,
                       trace |-> h.trace \o rest.trace]

ReturnsList(names) == [raised |-> FALSE, val |-> PyNone, names |-> names]

\* FeatureFlags.get_all_enabled_feature_toggles
get_all_enabled_feature_toggles(st, context) ==
    LET cfg == get_configuration(st)
    IN  CASE cfg.status = "ConfigurationError" -> [ret |-> ReturnsList(<<>>), trace |-> cfg.trace]
          [] cfg.status = "Exception" -> [ret |-> Raises, trace |-> cfg.trace]
          [] OTHER ->
               LET r == FeaturesLoop(cfg.doc, context, 1)
               IN  [ret |-> ReturnsList(r.names), trace |-> cfg.trace \o r.trace]

---------------------------------------------------------------------------
(* Bounded universe of configuration documents and calls *)

\* rules in one document, conditions in one document
MaxRules == 2

MaxDocConds == 2

ConfigNames == {"f", "g"}

FeatureDefaults == {PyBool(FALSE), PyBool(TRUE), PyStr(<<"a">>)}

RuleDefaults == {PyBool(FALSE), PyBool(TRUE)}

EngineConds ==
    {[key |-> "tenant", action |-> "EQUALS", value |-> PyStr(<<"a">>)],
     [key |-> "tenant", action |-> "EQUALS", value |-> PyStr(<<"b">>)]}

EngineContexts == ContextsOver({"tenant"}, {PyStr(<<"a">>), PyStr(<<"b">>)})

CallerDefaults == {PyBool(FALSE), PyBool(TRUE)}

RulesUpTo(c) ==
    [default : RuleDefaults,
     conditions : UNION {[1..n -> EngineConds] : n \in 0..c}]

\* rule lists of at most r rules holding at most c conditions
RECURSIVE RuleSeqs(_, _)
RuleSeqs(r, c) ==
    {<<>>} \cup
    (IF r = 0 THEN {}
     ELSE UNION {{<<rule>> \o rest : rest \in RuleSeqs(r - 1, c - Len(rule.conditions))} :
                 rule \in RulesUpTo(c)})

RECURSIVE CountConds(_)
CountConds(rules) ==
    IF rules = <<>> THEN 0 ELSE Len(Head(rules).conditions) + CountConds(Tail(rules))

FeaturesUpTo(r, c) == [default : FeatureDefaults, rules : RuleSeqs(r, c)]

\* the features with exactly r rules holding exactly c conditions
FeaturesExactly(r, c) ==
    {f \in FeaturesUpTo(r, c) : Len(f.rules) = r /\ CountConds(f.rules) = c}

OrderedNamePairs == {p \in ConfigNames \X ConfigNames : p[1] # p[2]}

Feature(n, f) == [name |-> n, def |-> f]

\* the documents a validator is shown and rejects
RejectedDocs == {<<Feature("f", f)>> : f \in FeaturesUpTo(1, 1)}

Failures == {"ConfigurationError", "Exception"}

AcceptedStore(doc) == [fetch |-> "ok", validate |-> "ok", doc |-> doc]

\* What the provider and the validator do: the fetch fails, or it yields a
\* document that the validator rejects, or one that it accepts. The accepted
\* documents are the insertion-ordered mappings from distinct names to
\* features, of at most MaxRules rules and MaxDocConds conditions in all.
InitStore ==
    \/ store \in [fetch : Failures, validate : {"ok"}, doc : {<<>>}]
    \/ store \in [fetch : {"ok"}, validate : Failures, doc : RejectedDocs]
    \/ store = AcceptedStore(<<>>)
    \/ \E n \in ConfigNames, f \in FeaturesUpTo(MaxRules, MaxDocConds) :
          store = AcceptedStore(<<Feature(n, f)>>)
    \/ \E p \in OrderedNamePairs, r \in 0..MaxRules, c \in 0..MaxDocConds :
          \E f1 \in FeaturesExactly(r, c) :
             \E f2 \in FeaturesUpTo(MaxRules - r, MaxDocConds - c) :
                store = AcceptedStore(<<Feature(p[1], f1), Feature(p[2], f2)>>)

---------------------------------------------------------------------------
(* Calls of the public entry points. A call that leaves context out runs on  *)
(* the empty mapping (lines 132-133, 185-186), which is among the contexts.  *)
(* In Spec the provider's answer is drawn once and one call is made on it;   *)
(* SpecSeq makes several calls while the answer changes.                     *)

Evaluate(feature_name, context, default) ==
    /\ LET r == evaluate(store, feature_name, context, default)
       IN  ret' = r.ret /\ trace' = r.trace
    /\ op' = "evaluate"
    /\ args' = [feature_name |-> feature_name, context |-> context, default |-> default]
    /\ pc' = "done"

GetAllEnabledFeatureToggles(context) ==
    /\ LET r == get_all_enabled_feature_toggles(store, context)
       IN  ret' = r.ret /\ trace' = r.trace
    /\ op' = "get_all"
    /\ args' = [feature_name |-> "", context |-> context, default |-> PyNone]
    /\ pc' = "done"

Init ==
    /\ pc = "idle" /\ op = "none"
    /\ args = [feature_name |-> "", context |-> <<>>, default |-> PyNone]
    /\ InitStore
    /\ ret = NoRet /\ trace = <<>> /\ hist = <<>>

EvaluateCall ==
    /\ pc = "idle"
    /\ \E feature_name \in ConfigNames, context \in EngineContexts, default \in CallerDefaults :
          Evaluate(feature_name, context, default)
    /\ UNCHANGED <<store, hist>>

GetAllCall ==
    /\ pc = "idle"
    /\ \E context \in EngineContexts : GetAllEnabledFeatureToggles(context)
    /\ UNCHANGED <<store, hist>>

Next == EvaluateCall \/ GetAllCall

Spec == Init /\ [][Next]_vars

---------------------------------------------------------------------------
(* Sequences of calls on one engine while the provider's answer changes *)

MaxCalls == 2

SeqDocs ==
    {<<Feature("f", [default |-> PyBool(TRUE), rules |-> <<>>])>>,
     <<Feature("f", [default |-> PyBool(FALSE),
                     rules |-> <<[default |-> PyBool(TRUE),
                                  conditions |-> <<[key |-> "tenant", action |-> "EQUALS",
                                                    value |-> PyStr(<<"a">>)]>>]>>])>>}

SeqStores ==
    {[fetch |-> "ConfigurationError", validate |-> "ok", doc |-> <<>>]}
        \cup [fetch : {"ok"}, validate : {"ConfigurationError"}, doc : SeqDocs]
        \cup {AcceptedStore(doc) : doc \in SeqDocs}

SeqContexts == ContextsOver({"tenant"}, {PyStr(<<"a">>)})

\* the record of the call that is completing
Completed == [op |-> op', args |-> args', store |-> store, ret |-> ret', trace |-> trace']

InitSeq ==
    /\ pc = "idle" /\ op = "none"
    /\ args = [feature_name |-> "", context |-> <<>>, default |-> PyNone]
    /\ store \in SeqStores
    /\ ret = NoRet /\ trace = <<>> /\ hist = <<>>

\* the provider's next answer is not its last one
ProviderChange ==
    /\ store' \in SeqStores \ {store}
    /\ UNCHANGED <<pc, op, args, ret, trace, hist>>

EvaluateSeq ==
    /\ Len(hist) < MaxCalls
    /\ \E feature_name \in ConfigNames, context \in SeqContexts, default \in CallerDefaults :
          Evaluate(feature_name, context, default)
    /\ hist' = Append(hist, Completed)
    /\ UNCHANGED store

GetAllSeq ==
    /\ Len(hist) < MaxCalls
    /\ \E context \in SeqContexts : GetAllEnabledFeatureToggles(context)
    /\ hist' = Append(hist, Completed)
    /\ UNCHANGED store

NextSeq == ProviderChange \/ EvaluateSeq \/ GetAllSeq

SpecSeq == InitSeq /\ [][NextSeq]_vars

---------------------------------------------------------------------------
(* Properties of the condition matcher and of rule matching (SpecCond) *)

Called(o) == pc = "done" /\ op = o

\* context.get(condition key) for the i-th condition of the rule in args
ConditionContextValue(i) == ContextGet(args.context, args.rule.conditions[i].key)

ConditionMatches(i) ==
    _match_by_action(args.rule.conditions[i].action, args.rule.conditions[i].value,
                     ConditionContextValue(i))

\* C1: a rule matches a context if and only if its condition list is not
\* empty and every one of its conditions matches, whatever the position of a
\* condition that fails.
C1_RuleMatchesIffAllConditionsMatch ==
    Called("rule") =>
        (ret.val = PyBool(TRUE) <=>
            /\ args.rule.conditions # <<>>
            /\ \A i \in DOMAIN args.rule.conditions : ConditionMatches(i))

FalsyValues == {PyNone, PyBool(FALSE), PyInt(0), PyStr(<<>>), PyList(<<>>)}

\* C7: a condition whose context value is absent or falsy never matches, for
\* every action and configured value; a rule does not match when a condition
\* it evaluated names a key whose context value is absent or falsy.
C7_FalsyContextNeverMatches ==
    /\ (Called("match") /\ args.context_value \in FalsyValues) => ret = Returns(PyBool(FALSE))
    /\ Called("rule") =>
          \A i \in 1..Len(trace) :
             (ConditionContextValue(i) \in FalsyValues) => ret = Returns(PyBool(FALSE))

\* EQUALS against an equal falsy configured value
C7_Witness ==
    /\ Called("match")
    /\ args.action = "EQUALS"
    /\ args.context_value = PyInt(0) /\ args.condition_value = PyInt(0)
    /\ ret = Returns(PyBool(FALSE))

\* The reference table of the actions, on a truthy context value.
RefPrefixes(x) == {SubSeq(x, 1, k) : k \in 0..Len(x)}

RefSuffixes(x) == {SubSeq(x, Len(x) - k + 1, Len(x)) : k \in 0..Len(x)}

RefInfixes(x) == UNION {RefPrefixes(y) : y \in RefSuffixes(x)}

RefNumber(v) == v.kind \in {"bool", "int"}

RefTable(action, configured, context) ==
    CASE action = "EQUALS" ->
           IF RefNumber(context) /\ RefNumber(configured)
           THEN context.n = configured.n
           ELSE context = configured
      [] action = "STARTSWITH" ->
           context.kind = "str" /\ configured.kind = "str" /\ configured.s \in RefPrefixes(context.s)
      [] action = "ENDSWITH" ->
           context.kind = "str" /\ configured.kind = "str" /\ configured.s \in RefSuffixes(context.s)
      [] action = "CONTAINS" ->
           /\ context.kind = "str"
           /\ \/ configured.kind = "str" /\ context.s \in RefInfixes(configured.s)
              \/ configured.kind = "list" /\ context.s \in {configured.l[i] : i \in DOMAIN configured.l}
      [] OTHER -> FALSE

\* C8: on a truthy context value _match_by_action returns what the reference
\* table gives for the action, the configured value and the context value,
\* False for an unknown action and for a comparison that fails at run time,
\* and raises nothing.
C8_MatchAgreesWithTable ==
    (Called("match") /\ args.context_value \notin FalsyValues) =>
        /\ ~ret.raised
        /\ ret.val = PyBool(RefTable(args.action, args.condition_value, args.context_value))

\* CONTAINS holds of a context value inside the configured value, where the
\* reverse containment fails
C8_Witness ==
    /\ Called("match")
    /\ args.action = "CONTAINS"
    /\ args.context_value = PyStr(<<"a">>) /\ args.condition_value = PyStr(<<"a", "b">>)
    /\ ret = Returns(PyBool(TRUE))

---------------------------------------------------------------------------
(* Properties of evaluate and get_all_enabled_feature_toggles (Spec) *)

Accepted(st) == st.fetch = "ok" /\ st.validate = "ok"

\* the provider or the validator fails with a ConfigurationError
ConfigurationFails(st) ==
    \/ st.fetch = "ConfigurationError"
    \/ st.fetch = "ok" /\ st.validate = "ConfigurationError"

\* the provider or the validator fails with an exception of another class
ForeignFailure(st) ==
    \/ st.fetch = "Exception"
    \/ st.fetch = "ok" /\ st.validate = "Exception"

\* the feature the completed evaluate call asked for, present in the document
AskedPresent == Called("evaluate") /\ Accepted(store) /\ HasFeature(store.doc, args.feature_name)

Asked == GetFeature(store.doc, args.feature_name)

AsBoolean(v) == PyBool(v \notin FalsyValues)

FirstRuleMatched(rules, context) == _is_rule_matched(rules[1], context).ret

EntryPointCalled == pc = "done" /\ op \in {"evaluate", "get_all"}

\* C3 as stated: the entry points never raise, whatever the provider and the
\* validator do; evaluate returns a boolean, get_all a sequence.
C3_NeverRaises ==
    EntryPointCalled =>
        /\ ~ret.raised
        /\ op = "evaluate" => ret.val.kind = "bool"
        /\ op = "get_all" => ret.names \in Seq(ConfigNames)

\* C3 amended: an entry point raises exactly when the provider or the
\* validator fails with an exception that is no ConfigurationError; in every
\* other case evaluate returns a boolean and get_all a sequence.
C3_RaisesOnlyForeignFailure ==
    EntryPointCalled =>
        /\ ret.raised <=> ForeignFailure(store)
        /\ (~ret.raised /\ op = "evaluate") => ret.val.kind = "bool"
        /\ (~ret.raised /\ op = "get_all") => ret.names \in Seq(ConfigNames)

\* the validator fails with a ConfigurationError and evaluate returns a boolean
C3_Witness ==
    /\ Called("evaluate")
    /\ store.fetch = "ok" /\ store.validate = "ConfigurationError"
    /\ ~ret.raised /\ ret.val.kind = "bool"

\* C4: when the provider or the validator fails with a ConfigurationError,
\* evaluate returns the caller's default and get_all the empty sequence, and
\* the call looks at no rule and no condition.
C4_ConfigurationErrorDegrades ==
    (EntryPointCalled /\ ConfigurationFails(store)) =>
        /\ op = "evaluate" => ret = Returns(args.default)
        /\ op = "get_all" => ret = ReturnsList(<<>>)
        /\ \A i \in DOMAIN trace : trace[i] \notin {"rule", "match"}

\* the rejected document holds a rule for the asked feature, whose default is
\* not the caller's
C4_Witness ==
    /\ Called("evaluate")
    /\ store.fetch = "ok" /\ store.validate = "ConfigurationError"
    /\ HasFeature(store.doc, args.feature_name)
    /\ Asked.rules # <<>>
    /\ Asked.default = PyBool(FALSE) /\ args.default = PyBool(TRUE)
    /\ ret = Returns(PyBool(TRUE))

\* C5: for a feature present with an empty rule list evaluate returns the
\* feature's own default_value as a boolean, for every context and every
\* caller default.
C5_NoRulesFeatureDefault ==
    (AskedPresent /\ Asked.rules = <<>>) => ret = Returns(AsBoolean(Asked.default))

\* the feature's default False wins over the caller's default True
C5_Witness ==
    /\ AskedPresent
    /\ Asked.rules = <<>>
    /\ Asked.default = PyBool(FALSE) /\ args.default = PyBool(TRUE)
    /\ ret = Returns(PyBool(FALSE))

\* C6: for a feature name absent from a fetched and validated configuration
\* evaluate returns the caller's default.
C6_AbsentFeatureCallerDefault ==
    (Called("evaluate") /\ Accepted(store) /\ ~HasFeature(store.doc, args.feature_name)) =>
        ret = Returns(args.default)

\* the document holds another feature, and the caller's default is True
C6_Witness ==
    /\ Called("evaluate") /\ Accepted(store)
    /\ store.doc # <<>>
    /\ ~HasFeature(store.doc, args.feature_name)
    /\ args.default = PyBool(TRUE)
    /\ ret = Returns(PyBool(TRUE))

\* a feature is enabled: no rules and a true default, or rules that
\* _handle_rules resolves to a true value
Enabled(f, context) ==
    \/ f.rules = <<>> /\ f.default \notin FalsyValues
    \/ f.rules # <<>> /\ _handle_rules(context, f.default, f.rules).ret \notin FalsyValues

EnabledEntry(e) == Enabled(e.def, args.context)

\* C9: get_all_enabled_feature_toggles returns, in insertion order and
\* without duplicates, exactly the names of the enabled features.
C9_EnabledNamesInOrder ==
    (Called("get_all") /\ Accepted(store)) =>
        LET enabled == SelectSeq(store.doc, EnabledEntry)
        IN  /\ ~ret.raised
            /\ Len(ret.names) = Len(enabled)
            /\ \A i \in 1..Len(enabled) : ret.names[i] = enabled[i].name
            /\ \A i, j \in 1..Len(ret.names) : ret.names[i] = ret.names[j] => i = j

\* two enabled features, the first by its rule and the second by its default,
\* and g inserted before f
C9_Witness ==
    /\ Called("get_all") /\ Accepted(store)
    /\ Len(store.doc) = 2
    /\ store.doc[1].name = "g" /\ store.doc[1].def.rules # <<>>
    /\ store.doc[1].def.default = PyBool(FALSE)
    /\ store.doc[2].def.rules = <<>>
    /\ ret = ReturnsList(<<"g", "f">>)

---------------------------------------------------------------------------
(* Properties of sequences of calls (SpecSeq) *)

\* one fetch, first; one validation, second, exactly when the fetch
\* succeeded; after them rules and conditions only
OneRoundTrip(h) ==
    /\ Len(h.trace) >= 1 /\ h.trace[1] = "fetch"
    /\ IF h.store.fetch = "ok"
       THEN Len(h.trace) >= 2 /\ h.trace[2] = "validate"
       ELSE Len(h.trace) = 1
    /\ \A i \in 3..Len(h.trace) : h.trace[i] \in {"rule", "match"}

====
